---- MODULE Spec2Model ----
(***************************************************************************)
(* The write-back cache store of lil (internal/store): the in-memory map,  *)
(* the write buffer, the flush channel with its single worker, the expiry  *)
(* reaper and Close, with request goroutines calling CreateShortURL,       *)
(* GetRedirectData and DeleteURL concurrently.  Every section the code     *)
(* runs under s.mu or s.bufMu is one atomic step; everything between two   *)
(* such sections can interleave with the other goroutines.                 *)
(***************************************************************************)
EXTENDS Integers, Sequences, FiniteSets, TLC

\* ---------------------------------------------------------------- bounds
MaxCalls == 2          \* calls the request goroutines make in all
MaxDeepCalls == 3      \* the same, in the deeper specification
MaxTime == 2           \* the clock runs 0..MaxTime
MaxRows == 3           \* data rows of an uploaded CSV file
MaxBulkCalls == 2      \* single creates and data rows, where both are made

\* ------------------------------------------------------- configuration
Procs == {1, 2}         \* request goroutines
Charset == {"a"}       \* the alphabet of generateRandomString, scaled down
ShortURLLen == 1       \* Conf.ShortURLLength
FallbackLen == 6       \* generateRandomString(6) in the collision loop
BufferSize == 2        \* Conf.BufferSize
FlushChanCap == 1      \* capacity of flushChan (100 in New), scaled down
maxRetries == 3        \* flushWithRetry
EventChanCap == 1      \* capacity of Manager.eventChan (1000 in NewManager), scaled down

\* The store only copies url and title, so every call brings its own pair.
URLs == <<"u1", "u2", "u3", "u4", "u5">>
Titles == <<"t1", "t2", "t3", "t4", "t5">>
Slugs == {<<"a">>}     \* caller-supplied slugs; <<>> is "no slug"
Expiries == {0, 1}     \* expiry durations; 0 is "never expires"
Pages == {1, 2}        \* the page and per_page parameters of a listing
PerPages == {1, 2}
batchSize == 2         \* batchSize of handleBulkUpload (10), scaled down

\* ------------------------------------------------------------- records
NoTime == <<>>         \* a nil *time.Time
NoData == [URL |-> "", Title |-> "", ShortCode |-> <<>>, CreatedAt |-> 0,
           ExpiresAt |-> NoTime]

URLData(url, title, code, createdAt, expiry) ==
    [URL |-> url, Title |-> title, ShortCode |-> code, CreatedAt |-> createdAt,
     ExpiresAt |-> IF expiry > 0 THEN <<createdAt + expiry>> ELSE NoTime]

generateRandomString(length) == [1..length -> Charset]

\* The expiry test with the comparison turned round (Before for After).
AfterReversed(t, rec) == rec.ExpiresAt # NoTime /\ t < rec.ExpiresAt[1]

\* time.Now().After(*urlData.ExpiresAt)
After(t, rec) == rec.ExpiresAt # NoTime /\ t > rec.ExpiresAt[1]

\* expires_at IS NOT NULL AND expires_at <= datetime('now')
SweepExpired(t, rec) == rec.ExpiresAt # NoTime /\ rec.ExpiresAt[1] <= t

\* delete(m, k) and m[k] = v on a Go map
MapDelete(m, k) == [c \in (DOMAIN m) \ {k} |-> m[c]]
MapDeleteAll(m, ks) == [c \in (DOMAIN m) \ ks |-> m[c]]
MapPut(m, k, v) == [c \in (DOMAIN m) \cup {k} |-> IF c = k THEN v ELSE m[c]]
EmptyMap == [c \in {} |-> NoData]

SeqToSet(s) == {s[i] : i \in 1..Len(s)}

VARIABLES
    cache,          \* s.cache
    gauge,          \* metrics.URLsStoredGauge
    URLsShortenedTotal,  \* metrics.URLsShortenedTotal
    URLsDeletedTotal,    \* metrics.URLsDeletedTotal
    db,             \* the urls table: short_code -> row
    dbClosed,       \* s.db.Close() has run
    writeBuf,       \* s.writeBuf
    flushChan,      \* s.flushChan: the batches queued on it
    chanClosed,     \* close(s.flushChan) has run
    doneClosed,     \* close(s.done) has run
    tickerStopped,  \* s.flushTicker.Stop() has run
    tickC,          \* a tick waits in the stopped ticker's channel
    now,            \* the wall clock
    pc,             \* where each request goroutine is
    local,          \* the locals of each request goroutine
    ret,            \* the call that returned in the last step, if one did
    wpc,            \* where the flush worker is
    wbatch,         \* the batch the flush worker holds
    attempt,        \* flushWithRetry's attempt
    cpc,            \* where Close is
    rpc,            \* where the reaper is
    rcodes,         \* the codes the sweep's DELETE returned
    panicked,       \* a goroutine panicked (send on a closed channel)
    nCalls,         \* calls made so far
    budget,         \* calls the request goroutines may make in all
    bulk,           \* the bulk upload: handleBulkUpload and its batch goroutines
    atClose,        \* history: the batches queued on flushChan when Close was called
    fate,           \* history: every record inserted into the cache -> what became of it
    oblig,          \* history: the records of returned creates, not deleted since
    analytics,      \* app.analytics != nil: analytics is enabled
    eventChan       \* Manager.eventChan: the events queued on it

vars == <<cache, gauge, db, dbClosed, writeBuf, flushChan, chanClosed, doneClosed,
          tickerStopped, tickC, now, pc, local, ret, wpc, wbatch, attempt, cpc,
          rpc, rcodes, panicked, nCalls, budget, bulk, atClose, fate, oblig, URLsShortenedTotal,
          URLsDeletedTotal, analytics, eventChan>>

counters == <<URLsShortenedTotal, URLsDeletedTotal>>
trackVars == <<analytics, eventChan>>

cacheVars == <<cache, gauge>>
closeVars == <<dbClosed, chanClosed, doneClosed, tickerStopped, cpc>>
workerVars == <<wpc, wbatch, attempt, tickC>>
reaperVars == <<rpc, rcodes>>
procVars == <<pc, local>>

\* The locals of a call: op and arg name the call and its slug or shortCode
\* argument; owed is history, the read-your-write obligations a lookup started under.
Local0 == [op |-> "none", arg |-> <<>>, code |-> <<>>, url |-> "", title |-> "",
           expiry |-> 0, data |-> NoData, batch |-> <<>>, rows |-> 0, owed |-> {},
           urls |-> <<>>]
NoList == [urls |-> <<>>, total |-> 0]
NoRet == [proc |-> 0, op |-> "none", arg |-> <<>>, code |-> <<>>, err |-> "nil",
          data |-> NoData, owed |-> {}, list |-> NoList, status |-> 0, tracked |-> 0]

\* handleBulkUpload's locals: the data rows, the loop index, the batch being
\* filled, the batch goroutines (their rows, their results so far, wg.Done) and
\* results.
NoBulk == [pc |-> "idle", records |-> <<>>, i |-> 1, batch |-> <<>>, workers |-> <<>>,
           results |-> <<>>]

\* New with the table the last run left: loadCache copies every row into the
\* cache and the gauge is set to their number.  NewManager returns a manager
\* with an empty queue when analytics is enabled and nil when it is not.
InitApp(calls, rows, enabled) ==
    /\ analytics = enabled
    /\ eventChan = <<>>
    /\ budget = calls
    /\ cache = rows
    /\ gauge = Cardinality(DOMAIN rows)
    /\ URLsShortenedTotal = 0
    /\ URLsDeletedTotal = 0
    /\ db = rows
    /\ dbClosed = FALSE
    /\ writeBuf = <<>>
    /\ flushChan = <<>>
    /\ chanClosed = FALSE
    /\ doneClosed = FALSE
    /\ tickerStopped = FALSE
    /\ tickC = FALSE
    /\ now = 0
    /\ pc = [p \in Procs |-> "idle"]
    /\ local = [p \in Procs |-> Local0]
    /\ ret = NoRet
    /\ wpc = "select"
    /\ wbatch = <<>>
    /\ attempt = 0
    /\ cpc = "open"
    /\ rpc = "wait"
    /\ rcodes = {}
    /\ panicked = FALSE
    /\ nCalls = 0
    /\ bulk = NoBulk
    /\ atClose = <<>>
    /\ fate = [r \in {rows[c] : c \in DOMAIN rows} |-> "durable"]
    /\ oblig = {rows[c] : c \in DOMAIN rows}

\* The application with analytics disabled.
InitWith(calls, rows) == InitApp(calls, rows, FALSE)

Init == InitWith(MaxCalls, EmptyMap)

InitDeep == InitWith(MaxDeepCalls, EmptyMap)

\* handlers.go lines 96-98: handleShortenURL counts the create that returned an
\* error.  A panic of the call unwinds the handler.
ShortenedInc(op, err) == IF op = "create" /\ err \notin {"nil", "panic"} THEN 1 ELSE 0

\* handlers.go lines 119-121: handleDeleteURL counts the delete that returned
\* ErrNotExist.
DeletedInc(op, err) == IF op = "delete" /\ err = "ErrNotExist" THEN 1 ELSE 0

\* handlers.go lines 181-212: the status handleRedirect answers with.
RedirectStatus(op, err) ==
    IF op # "get" THEN 0
    ELSE IF err = "nil" THEN 302
    ELSE IF err = "ErrNotExist" THEN 404
    ELSE 500

\* handlers.go lines 192-204: handleRedirect calls Track once, after a lookup
\* without error, when there is a manager.
Tracks(op, err) == IF op = "get" /\ err = "nil" /\ analytics THEN 1 ELSE 0

\* handlers.go lines 194-203: the event of a lookup.
Event(code, data) == [ShortCode |-> code, TargetURL |-> data.URL]

\* A send that queues the event whatever the queue holds.
TrackUnbounded(q, evt) == Append(q, evt)

\* access.go lines 190-197: Manager.Track, a select with a default: the event is
\* queued when the channel has room and dropped with a warning when it is full.
Track(q, evt) == IF Len(q) < EventChanCap THEN Append(q, evt) ELSE q

\* A call of goroutine p returns to its handler: its locals die, the handler
\* updates its counter or tracks the lookup and answers, and ret holds the
\* result for one step.
ReturnAll(p, op, arg, code, err, data, owed, list) ==
    /\ pc' = [pc EXCEPT ![p] = "idle"]
    /\ local' = [local EXCEPT ![p] = Local0]
    /\ ret' = [proc |-> p, op |-> op, arg |-> arg, code |-> code, err |-> err,
               data |-> data, owed |-> owed, list |-> list,
               status |-> RedirectStatus(op, err), tracked |-> Tracks(op, err)]
    /\ eventChan' = IF Tracks(op, err) = 1 THEN Track(eventChan, Event(arg, data))
                    ELSE eventChan
    /\ UNCHANGED analytics
    /\ URLsShortenedTotal' = URLsShortenedTotal + ShortenedInc(op, err)
    /\ URLsDeletedTotal' = URLsDeletedTotal + DeletedInc(op, err)
    /\ UNCHANGED <<budget, bulk, atClose>>

ReturnOwed(p, op, arg, code, err, data, owed) ==
    ReturnAll(p, op, arg, code, err, data, owed, NoList)

Return(p, op, arg, code, err, data) == ReturnOwed(p, op, arg, code, err, data, {})

\* A step in which no call returns.
Silent == ret' = NoRet /\ UNCHANGED <<budget, bulk, atClose, counters, trackVars>>

Goto(p, label, loc) ==
    /\ pc' = [pc EXCEPT ![p] = label]
    /\ local' = [local EXCEPT ![p] = loc]
    /\ Silent

\* A panic in the flush worker ends the process.
Running == ~panicked

\* s.mu can be taken.  The sections of the request goroutines under s.mu are
\* single steps, so between two steps only the reaper can hold it: it takes the
\* lock at expire.go line 43 and reads the rows of its DELETE under it.
MuFree == rpc # "locked"

\* Request goroutines are interchangeable: a new call runs on the first idle one.
CanStart(p) ==
    /\ pc[p] = "idle"
    /\ nCalls < budget
    /\ \A q \in Procs : q < p => pc[q] # "idle"

\* ------------------------------------------------------- CreateShortURL
\* The existence check made against the durable table instead of the cache.
ExistsInTable(code) == code \in DOMAIN db

\* _, exists := s.cache[slug] under RLock
Exists(code) == code \in DOMAIN cache

\* Lines 276-287: createdAt := time.Now() and the record.  The clock is read in
\* the step of the existence check that precedes it.
Build(loc) ==
    [loc EXCEPT !.data = URLData(loc.url, loc.title, loc.code, now, loc.expiry)]

\* The validation left out.
RequiredNever(url) == TRUE

\* handlers.go line 83: req.URL == "" is refused.
Required(url) == url # ""

\* handlers.go lines 83-86 and store.go lines 253-287: handleShortenURL refuses
\* the empty URL; CreateShortURL makes the slug check, or the first generated
\* candidate and its check, and the record when the code is free.
CreateStart(p) ==
    /\ Running
    /\ CanStart(p)
    /\ nCalls' = nCalls + 1
    /\ \E url \in {URLs[nCalls'], ""}, slug \in Slugs \cup {<<>>}, expiry \in Expiries :
        LET loc == [Local0 EXCEPT !.op = "create", !.arg = slug, !.url = url,
                                  !.title = Titles[nCalls'], !.expiry = expiry] IN
        IF ~Required(url)
        THEN Return(p, "shorten", slug, <<>>, "URL is required", NoData)
        ELSE IF ~MuFree
        THEN FALSE
        ELSE IF slug # <<>>
        THEN IF Exists(slug)
             THEN Return(p, "create", slug, <<>>, "slug already exists", NoData)
             ELSE Goto(p, "insert", Build([loc EXCEPT !.code = slug]))
        ELSE \E g \in generateRandomString(ShortURLLen) :
                IF ~Exists(g)
                THEN Goto(p, "insert", Build([loc EXCEPT !.code = g]))
                ELSE \E h \in generateRandomString(FallbackLen) :
                        Goto(p, "loop", [loc EXCEPT !.code = h])
    /\ UNCHANGED <<cacheVars, db, writeBuf, flushChan, closeVars, workerVars,
                   reaperVars, now, panicked, fate, oblig>>

\* Lines 265-287: the collision loop after the first candidate collided.
CreateLoop(p) ==
    /\ Running
    /\ pc[p] = "loop"
    /\ MuFree
    /\ IF ~Exists(local[p].code)
       THEN Goto(p, "insert", Build(local[p]))
       ELSE \E h \in generateRandomString(FallbackLen) :
               Goto(p, "loop", [local[p] EXCEPT !.code = h])
    /\ UNCHANGED <<cacheVars, db, writeBuf, flushChan, closeVars, workerVars,
                   reaperVars, now, panicked, nCalls, fate, oblig>>

\* The insert written through to the durable table, its error returned.
CreateInsertThrough(p) ==
    /\ Running
    /\ pc[p] = "insert"
    /\ MuFree
    /\ \E ok \in BOOLEAN :
        IF ok /\ ~dbClosed /\ local[p].code \notin DOMAIN db
        THEN /\ db' = MapPut(db, local[p].code, local[p].data)
             /\ cache' = MapPut(cache, local[p].code, local[p].data)
             /\ gauge' = Cardinality(DOMAIN cache')
             /\ Goto(p, "append", local[p])
             /\ fate' = MapPut(fate, local[p].data, "cached")
        ELSE /\ Return(p, "create", local[p].arg, <<>>, "db error", NoData)
             /\ UNCHANGED <<cacheVars, db, fate>>
    /\ UNCHANGED <<writeBuf, flushChan, closeVars, workerVars, reaperVars, now,
                   panicked, nCalls, oblig>>

\* Lines 289-293: the cache insert and the gauge, under s.mu.Lock.
CreateInsert(p) ==
    /\ Running
    /\ pc[p] = "insert"
    /\ MuFree
    /\ cache' = MapPut(cache, local[p].code, local[p].data)
    /\ gauge' = Cardinality(DOMAIN cache')
    /\ Goto(p, "append", local[p])
    /\ fate' = MapPut(fate, local[p].data, "cached")
    /\ UNCHANGED <<db, writeBuf, flushChan, closeVars, workerVars, reaperVars, now,
                   panicked, nCalls, oblig>>

\* Line 306: return shortCode, nil.  The returned record becomes an obligation
\* of read-your-write.
CreateReturn(p) ==
    /\ Return(p, "create", local[p].arg, local[p].code, "nil", NoData)
    /\ oblig' = oblig \cup {local[p].data}

\* The threshold missed by one record.
ShouldFlushLate(buf) == Len(buf) > BufferSize

\* shouldFlush := len(s.writeBuf) >= s.bufferSize
ShouldFlush(buf) == Len(buf) >= BufferSize

\* Lines 295-306: the buffer append under s.bufMu; return unless the buffer is full.
CreateAppend(p) ==
    /\ Running
    /\ pc[p] = "append"
    /\ writeBuf' = Append(writeBuf, local[p].data)
    /\ IF ShouldFlush(writeBuf')
       THEN Goto(p, "trigger", local[p]) /\ UNCHANGED oblig
       ELSE CreateReturn(p)
    /\ UNCHANGED <<cacheVars, db, flushChan, closeVars, workerVars, reaperVars, now,
                   panicked, nCalls, fate>>

\* ---------------------------------------------------------- triggerFlush
\* Lines 179-183: the non-blocking send of a captured batch.  A send on a closed
\* channel panics (in a request goroutine the caller sees the panic, in the flush
\* worker the process dies); a full channel drops the batch with a warning.
\* A channel that always has room.
ChanFullNever == FALSE

\* len(s.flushChan) == cap(s.flushChan): the select of line 179 takes its default.
ChanFull == Len(flushChan) >= FlushChanCap

Lose(urls) == [r \in DOMAIN fate |->
                 IF r \in SeqToSet(urls) /\ fate[r] = "cached" THEN "logged" ELSE fate[r]]

Commit(urls) == [r \in DOMAIN fate |-> IF r \in SeqToSet(urls) THEN "durable" ELSE fate[r]]

\* The send when the channel is open.
SendBatch(urls) ==
    IF ~ChanFull
    THEN /\ flushChan' = Append(flushChan, urls)
         /\ UNCHANGED fate
    ELSE /\ fate' = Lose(urls)
         /\ UNCHANGED flushChan

\* The trigger that copies the buffer and forgets to reset it.
CreateTriggerNoReset(p) ==
    /\ Running
    /\ pc[p] = "trigger"
    /\ IF Len(writeBuf) = 0
       THEN CreateReturn(p)
       ELSE /\ Goto(p, "send", [local[p] EXCEPT !.batch = writeBuf])
            /\ UNCHANGED oblig
    /\ UNCHANGED <<cacheVars, db, writeBuf, flushChan, closeVars, workerVars, reaperVars,
                   now, panicked, nCalls, fate>>

\* Lines 166-176 called from CreateShortURL line 303: copy the buffer and reset it.
CreateTrigger(p) ==
    /\ Running
    /\ pc[p] = "trigger"
    /\ IF Len(writeBuf) = 0
       THEN /\ CreateReturn(p)
            /\ UNCHANGED writeBuf
       ELSE /\ Goto(p, "send", [local[p] EXCEPT !.batch = writeBuf])
            /\ writeBuf' = <<>>
            /\ UNCHANGED oblig
    /\ UNCHANGED <<cacheVars, db, flushChan, closeVars, workerVars, reaperVars, now,
                   panicked, nCalls, fate>>

\* Lines 179-183 called from CreateShortURL, then line 306.
CreateSend(p) ==
    /\ Running
    /\ pc[p] = "send"
    /\ IF chanClosed
       THEN /\ Return(p, "create", local[p].arg, <<>>, "panic", NoData)
            /\ UNCHANGED <<flushChan, fate, oblig>>
       ELSE /\ SendBatch(local[p].batch)
            /\ CreateReturn(p)
    /\ UNCHANGED <<cacheVars, db, writeBuf, closeVars, workerVars, reaperVars, now,
                   panicked, nCalls>>

\* ------------------------------------------------------ GetRedirectData
LookupCodes == Slugs \cup generateRandomString(ShortURLLen) \cup DOMAIN cache
                  \cup DOMAIN db

\* History: the returned creates of the code that no delete has touched since.
Owed(code) == {r \in oblig : r.ShortCode = code}

\* A lookup that reads through: a code missing from the cache is looked for in
\* the table and, when found, put back into the cache.
GetStartThrough(p) ==
    /\ Running
    /\ CanStart(p)
    /\ MuFree
    /\ nCalls' = nCalls + 1
    /\ \E code \in LookupCodes :
        IF ~Exists(code)
        THEN IF code \in DOMAIN db /\ ~dbClosed
             THEN /\ cache' = MapPut(cache, code, db[code])
                  /\ gauge' = Cardinality(DOMAIN cache')
                  /\ ReturnOwed(p, "get", code, <<>>, "nil", db[code], Owed(code))
             ELSE /\ ReturnOwed(p, "get", code, <<>>, "ErrNotExist", NoData, Owed(code))
                  /\ UNCHANGED cacheVars
        ELSE /\ UNCHANGED cacheVars
             /\ IF After(now, cache[code])
                THEN Goto(p, "evict", [Local0 EXCEPT !.op = "get", !.arg = code,
                                                     !.code = code, !.data = cache[code],
                                                     !.owed = Owed(code)])
                ELSE ReturnOwed(p, "get", code, <<>>, "nil", cache[code], Owed(code))
    /\ UNCHANGED <<db, writeBuf, flushChan, closeVars, workerVars,
                   reaperVars, now, panicked, fate, oblig>>

\* Lines 310-318 and 331: the cache read under RLock and the expiry test against
\* time.Now(), read in the same step.
GetStart(p) ==
    /\ Running
    /\ CanStart(p)
    /\ MuFree
    /\ nCalls' = nCalls + 1
    /\ \E code \in LookupCodes :
        IF ~Exists(code)
        THEN ReturnOwed(p, "get", code, <<>>, "ErrNotExist", NoData, Owed(code))
        ELSE IF After(now, cache[code])
        THEN Goto(p, "evict", [Local0 EXCEPT !.op = "get", !.arg = code, !.code = code,
                                             !.data = cache[code], !.owed = Owed(code)])
        ELSE ReturnOwed(p, "get", code, <<>>, "nil", cache[code], Owed(code))
    /\ UNCHANGED <<cacheVars, db, writeBuf, flushChan, closeVars, workerVars,
                   reaperVars, now, panicked, fate, oblig>>

\* Lines 320-323: the lazy eviction under s.mu.Lock.
GetEvict(p) ==
    /\ Running
    /\ pc[p] = "evict"
    /\ MuFree
    /\ cache' = MapDelete(cache, local[p].code)
    /\ gauge' = Cardinality(DOMAIN cache')
    /\ Goto(p, "getdel", local[p])
    /\ UNCHANGED <<db, writeBuf, flushChan, closeVars, workerVars, reaperVars, now,
                   panicked, nCalls, fate, oblig>>

\* The DELETE's error returned to the caller.
GetDeleteStrict(p) ==
    /\ Running
    /\ pc[p] = "getdel"
    /\ \E ok \in BOOLEAN :
        IF ok /\ ~dbClosed
        THEN /\ db' = MapDelete(db, local[p].code)
             /\ ReturnOwed(p, "get", local[p].arg, <<>>, "ErrNotExist", NoData,
                           local[p].owed \cap oblig)
        ELSE /\ UNCHANGED db
             /\ ReturnOwed(p, "get", local[p].arg, <<>>, "db error", NoData,
                           local[p].owed \cap oblig)
    /\ UNCHANGED <<cacheVars, writeBuf, flushChan, closeVars, workerVars, reaperVars,
                   now, panicked, nCalls, fate, oblig>>

\* Lines 324-328: the best-effort DELETE; its error is only logged.
GetDelete(p) ==
    /\ Running
    /\ pc[p] = "getdel"
    /\ \E ok \in BOOLEAN :
        IF ok /\ ~dbClosed
        THEN db' = MapDelete(db, local[p].code)
        ELSE UNCHANGED db
    /\ ReturnOwed(p, "get", local[p].arg, <<>>, "ErrNotExist", NoData,
                  local[p].owed \cap oblig)
    /\ UNCHANGED <<cacheVars, writeBuf, flushChan, closeVars, workerVars, reaperVars,
                   now, panicked, nCalls, fate, oblig>>

\* ------------------------------------------------------------ DeleteURL
\* The affected-row count taken for granted once the statement succeeded.
RowsAffectedIgnored(code) == 1

\* result.RowsAffected() of DELETE FROM urls WHERE short_code = ?
RowsAffected(code) == IF code \in DOMAIN db THEN 1 ELSE 0

Discharge(code) == {r \in oblig : r.ShortCode # code}

\* Lines 336-348: the durable delete and its affected-row count.
DeleteStart(p) ==
    /\ Running
    /\ CanStart(p)
    /\ nCalls' = nCalls + 1
    /\ \E code \in LookupCodes, ok \in BOOLEAN :
        IF ~(ok /\ ~dbClosed)
        THEN /\ Return(p, "delete", code, <<>>, "db error", NoData)
             /\ UNCHANGED <<db, oblig>>
        ELSE IF RowsAffected(code) = 0
        THEN /\ Return(p, "delete", code, <<>>, "ErrNotExist", NoData)
             /\ UNCHANGED <<db, oblig>>
        ELSE /\ db' = MapDelete(db, code)
             /\ oblig' = Discharge(code)
             /\ Goto(p, "delcache", [Local0 EXCEPT !.op = "delete", !.arg = code,
                                                    !.code = code,
                                                    !.rows = RowsAffected(code)])
    /\ UNCHANGED <<cacheVars, writeBuf, flushChan, closeVars, workerVars, reaperVars,
                   now, panicked, fate>>

\* Lines 350-356: the cache delete under s.mu.Lock.
DeleteCache(p) ==
    /\ Running
    /\ pc[p] = "delcache"
    /\ MuFree
    /\ cache' = MapDelete(cache, local[p].code)
    /\ gauge' = Cardinality(DOMAIN cache')
    /\ Return(p, "delete", local[p].arg, <<>>, "nil", NoData)
    /\ UNCHANGED <<db, writeBuf, flushChan, closeVars, workerVars, reaperVars, now,
                   panicked, nCalls, fate, oblig>>

\* -------------------------------------------------------------- GetURLs
\* The table a listing reads, taken to be the cache.
ListTableCache == cache

\* FROM urls
ListTable == db

\* WHERE expires_at IS NULL OR expires_at > datetime('now')
Unexpired(t, rec) == rec.ExpiresAt = NoTime \/ rec.ExpiresAt[1] > t

LiveRows == {ListTable[c] : c \in {k \in DOMAIN ListTable : Unexpired(now, ListTable[k])}}

\* ORDER BY created_at DESC: every order of the rows in which created_at never
\* rises; rows of equal created_at come in any order.
Newest(rows) ==
    {s \in [1..Cardinality(rows) -> rows] :
        /\ \A i, j \in DOMAIN s : i # j => s[i] # s[j]
        /\ \A i, j \in DOMAIN s : i < j => s[i].CreatedAt >= s[j].CreatedAt}

Min(a, b) == IF a < b THEN a ELSE b

\* LIMIT perPage OFFSET (page-1)*perPage
Limit(s, page, perPage) ==
    SubSeq(s, (page - 1) * perPage + 1, Min((page - 1) * perPage + perPage, Len(s)))

\* Lines 360-385: the page query and the scan of its rows.
ListStart(p) ==
    /\ Running
    /\ CanStart(p)
    /\ nCalls' = nCalls + 1
    /\ \E page \in Pages, perPage \in PerPages, ok \in BOOLEAN :
        IF ~(ok /\ ~dbClosed)
        THEN ReturnAll(p, "list", <<page, perPage>>, <<>>, "db error", NoData, {}, NoList)
        ELSE \E s \in Newest(LiveRows) :
                Goto(p, "count", [Local0 EXCEPT !.op = "list", !.arg = <<page, perPage>>,
                                                !.urls = Limit(s, page, perPage)])
    /\ UNCHANGED <<cacheVars, db, writeBuf, flushChan, closeVars, workerVars,
                   reaperVars, now, panicked, fate, oblig>>

\* Lines 386-394: the COUNT(*) query and the return.
ListCount(p) ==
    /\ Running
    /\ pc[p] = "count"
    /\ \E ok \in BOOLEAN :
        IF ~(ok /\ ~dbClosed)
        THEN ReturnAll(p, "list", local[p].arg, <<>>, "db error", NoData, {}, NoList)
        ELSE ReturnAll(p, "list", local[p].arg, <<>>, "nil", NoData, {},
                       [urls |-> local[p].urls, total |-> Cardinality(LiveRows)])
    /\ UNCHANGED <<cacheVars, db, writeBuf, flushChan, closeVars, workerVars,
                   reaperVars, now, panicked, nCalls, fate, oblig>>

\* ---------------------------------------------------------- flushWorker
\* Lines 152-153 and 166-176: case <-s.flushTicker.C, the buffer copy and reset.
\* A running ticker can deliver a tick at any moment; a stopped one only the tick
\* that was already in its channel.
WorkerTick ==
    /\ Running
    /\ wpc = "select"
    /\ ~tickerStopped \/ tickC
    /\ tickC' = FALSE
    /\ IF Len(writeBuf) = 0
       THEN UNCHANGED <<writeBuf, wpc, wbatch>>
       ELSE /\ wbatch' = writeBuf
            /\ writeBuf' = <<>>
            /\ wpc' = "send"
    /\ Silent
    /\ UNCHANGED <<cacheVars, db, flushChan, closeVars, attempt, reaperVars, procVars,
                   now, panicked, nCalls, fate, oblig>>

\* Lines 179-183 in the worker.
WorkerSend ==
    /\ Running
    /\ wpc = "send"
    /\ IF chanClosed
       THEN /\ panicked' = TRUE
            /\ UNCHANGED <<flushChan, fate, wpc, wbatch>>
       ELSE /\ SendBatch(wbatch)
            /\ wpc' = "select"
            /\ wbatch' = <<>>
            /\ UNCHANGED panicked
    /\ Silent
    /\ UNCHANGED <<cacheVars, db, writeBuf, closeVars, attempt, tickC, reaperVars,
                   procVars, now, nCalls, oblig>>

\* Lines 154-158: case urls, ok := <-s.flushChan.
WorkerRecv ==
    /\ Running
    /\ wpc = "select"
    /\ IF Len(flushChan) > 0
       THEN /\ wbatch' = Head(flushChan)
            /\ flushChan' = Tail(flushChan)
            /\ wpc' = "flush"
            /\ attempt' = 0
       ELSE /\ chanClosed
            /\ wpc' = "exited"
            /\ UNCHANGED <<wbatch, flushChan, attempt>>
    /\ Silent
    /\ UNCHANGED <<cacheVars, db, writeBuf, closeVars, tickC, reaperVars, procVars, now,
                   panicked, nCalls, fate, oblig>>

\* Lines 159-160: case <-s.done.
WorkerDone ==
    /\ Running
    /\ wpc = "select"
    /\ doneClosed
    /\ wpc' = "exited"
    /\ Silent
    /\ UNCHANGED <<cacheVars, db, writeBuf, flushChan, closeVars, wbatch, attempt, tickC,
                   reaperVars, procVars, now, panicked, nCalls, fate, oblig>>

\* The multi-row INSERT violates the primary key when a code of the batch is in
\* the table already or twice in the batch.
KeyConflict(urls) ==
    \/ \E i \in 1..Len(urls) : urls[i].ShortCode \in DOMAIN db
    \/ \E i, j \in 1..Len(urls) : i # j /\ urls[i].ShortCode = urls[j].ShortCode

\* A commit that keeps every record of the batch but the last.
InsertAllButLast(urls) ==
    [c \in DOMAIN db \cup {urls[i].ShortCode : i \in 1..(Len(urls) - 1)} |->
        IF \E i \in 1..(Len(urls) - 1) : urls[i].ShortCode = c
        THEN (CHOOSE r \in SeqToSet(SubSeq(urls, 1, Len(urls) - 1)) : r.ShortCode = c)
        ELSE db[c]]

\* The table after the batch's transaction committed.
InsertAll(urls) ==
    [c \in DOMAIN db \cup {urls[i].ShortCode : i \in 1..Len(urls)} |->
        IF \E i \in 1..Len(urls) : urls[i].ShortCode = c
        THEN (CHOOSE r \in SeqToSet(urls) : r.ShortCode = c)
        ELSE db[c]]

\* Four attempts instead of three.
CanRetryTwice(a) == a < maxRetries

\* The retry given up one attempt early.
CanRetryOnce(a) == a < maxRetries - 2

\* Line 192: attempt < maxRetries-1
CanRetry(a) == a < maxRetries - 1

\* flushWithRetry returns.
FlushReturn ==
    /\ wpc' = "select"
    /\ wbatch' = <<>>
    /\ attempt' = 0

\* Lines 190-205 with doFlush (208-247): one attempt of the batch, the store
\* answering (ok) or not.  The INSERT of a batch with a key conflict fails even
\* when the store answers.
doFlush(ok) ==
    /\ Running
    /\ wpc = "flush"
    /\ IF ok /\ ~dbClosed /\ ~KeyConflict(wbatch)
       THEN /\ db' = InsertAll(wbatch)
            /\ fate' = Commit(wbatch)
            /\ FlushReturn
       ELSE IF CanRetry(attempt)
       THEN /\ attempt' = attempt + 1
            /\ UNCHANGED <<db, fate, wpc, wbatch>>
       ELSE /\ fate' = Lose(wbatch)
            /\ FlushReturn
            /\ UNCHANGED db
    /\ Silent
    /\ UNCHANGED <<cacheVars, writeBuf, flushChan, closeVars, tickC, reaperVars,
                   procVars, now, panicked, nCalls, oblig>>

WorkerFlush == \E ok \in BOOLEAN : doFlush(ok)

\* ---------------------------------------------------------------- Close
\* Lines 140-141: s.flushTicker.Stop() and close(s.done).  Stop does not drain
\* the ticker's channel: a tick delivered before it may still be waiting there.
CloseDone ==
    /\ Running
    /\ cpc = "open"
    /\ tickerStopped' = TRUE
    /\ tickC' \in BOOLEAN
    /\ doneClosed' = TRUE
    /\ cpc' = "done"
    /\ atClose' = flushChan
    /\ ret' = NoRet
    /\ UNCHANGED <<budget, bulk, counters, trackVars>>
    /\ UNCHANGED <<cacheVars, db, writeBuf, flushChan, dbClosed, chanClosed,
                   wpc, wbatch, attempt, reaperVars, procVars, now, panicked,
                   nCalls, fate, oblig>>

\* Line 142: close(s.flushChan).
CloseChan ==
    /\ Running
    /\ cpc = "done"
    /\ chanClosed' = TRUE
    /\ cpc' = "wait"
    /\ Silent
    /\ UNCHANGED <<cacheVars, db, writeBuf, flushChan, dbClosed, doneClosed,
                   tickerStopped, workerVars, reaperVars, procVars, now, panicked,
                   nCalls, fate, oblig>>

\* Lines 143-144: <-s.workerDone, then s.db.Close().
CloseDB ==
    /\ Running
    /\ cpc = "wait"
    /\ wpc = "exited"
    /\ dbClosed' = TRUE
    /\ cpc' = "closed"
    /\ Silent
    /\ UNCHANGED <<cacheVars, db, writeBuf, flushChan, chanClosed, doneClosed,
                   tickerStopped, workerVars, reaperVars, procVars, now, panicked,
                   nCalls, fate, oblig>>

\* --------------------------------------------------------------- reaper
\* The codes DELETE ... RETURNING short_code returns.
ExpiredRows == {c \in DOMAIN db : SweepExpired(now, db[c])}

\* The reaper's goroutine ended by a failed sweep.
AfterFailedSweepExit == "exited"

\* expire.go lines 20-22: the error of a sweep is logged and the loop waits for
\* the next tick.
AfterFailedSweep == "wait"

\* expire.go lines 19-22 and 32-39: a tick and the sweep's DELETE, the store
\* answering (ok) or not; its error ends the sweep, and a sweep that returns no
\* code changes nothing.
Sweep(ok) ==
    /\ Running
    /\ rpc = "wait"
    /\ IF ok /\ ~dbClosed
       THEN IF ExpiredRows # {}
            THEN /\ rcodes' = ExpiredRows
                 /\ db' = MapDeleteAll(db, ExpiredRows)
                 /\ rpc' = "remove"
            ELSE UNCHANGED <<db, rpc, rcodes>>
       ELSE /\ rpc' = AfterFailedSweep
            /\ UNCHANGED <<db, rcodes>>
    /\ Silent
    /\ UNCHANGED <<cacheVars, writeBuf, flushChan, closeVars, workerVars, procVars, now,
                   panicked, nCalls, fate, oblig>>

ReaperSweep == \E ok \in BOOLEAN : Sweep(ok)

\* expire.go line 43: s.mu.Lock(), with the rows of the DELETE still to be read.
ReaperLock ==
    /\ Running
    /\ rpc = "remove"
    /\ MuFree
    /\ rpc' = "locked"
    /\ Silent
    /\ UNCHANGED <<cacheVars, db, writeBuf, flushChan, closeVars, workerVars, procVars,
                   now, panicked, nCalls, fate, oblig, rcodes>>

\* The removal that leaves the gauge as it was.
ReaperRemoveNoGauge ==
    /\ Running
    /\ rpc = "locked"
    /\ cache' = MapDeleteAll(cache, rcodes)
    /\ rpc' = "wait"
    /\ rcodes' = {}
    /\ Silent
    /\ UNCHANGED <<gauge, db, writeBuf, flushChan, closeVars, workerVars, procVars, now,
                   panicked, nCalls, fate, oblig>>

\* expire.go lines 44-54: rows.Next() and rows.Scan() read the returned codes from
\* the store while s.mu is held, every code read leaves the cache, the gauge is
\* set and the lock released.
ReaperRemove ==
    /\ Running
    /\ rpc = "locked"
    /\ cache' = MapDeleteAll(cache, rcodes)
    /\ gauge' = Cardinality(DOMAIN cache')
    /\ rpc' = "wait"
    /\ rcodes' = {}
    /\ Silent
    /\ UNCHANGED <<db, writeBuf, flushChan, closeVars, workerVars, procVars, now,
                   panicked, nCalls, fate, oblig>>

\* -------------------------------------------------------------- restart
\* A load that leaves out the rows that have expired.
loadCacheLive == [c \in {d \in DOMAIN db : ~SweepExpired(now, db[d])} |-> db[c]]

\* store.go lines 117-137: loadCache selects every row of urls and puts it into
\* the cache under its short_code.
loadCache == [c \in DOMAIN db |-> db[c]]

\* The process ends, at any moment and for any reason, and is started again:
\* nothing of it is left but the table.  New (store.go 52-93) opens the store,
\* makes an empty cache, write buffer and flush channel, starts the flush worker,
\* loads the cache and sets the gauge; the counters and the event queue of the
\* new process are empty.
Restart ==
    /\ cache' = loadCache
    /\ gauge' = Cardinality(DOMAIN cache')
    /\ URLsShortenedTotal' = 0
    /\ URLsDeletedTotal' = 0
    /\ dbClosed' = FALSE
    /\ writeBuf' = <<>>
    /\ flushChan' = <<>>
    /\ chanClosed' = FALSE
    /\ doneClosed' = FALSE
    /\ tickerStopped' = FALSE
    /\ tickC' = FALSE
    /\ pc' = [p \in Procs |-> "idle"]
    /\ local' = [p \in Procs |-> Local0]
    /\ ret' = [NoRet EXCEPT !.op = "new"]
    /\ wpc' = "select"
    /\ wbatch' = <<>>
    /\ attempt' = 0
    /\ cpc' = "open"
    /\ rpc' = "wait"
    /\ rcodes' = {}
    /\ panicked' = FALSE
    /\ bulk' = NoBulk
    /\ atClose' = <<>>
    /\ eventChan' = <<>>
    /\ UNCHANGED <<db, now, nCalls, budget, analytics, fate, oblig>>

\* ------------------------------------------------------------ analytics
\* access.go lines 212-229: a worker of the manager takes the next event off the
\* channel and hands it to the dispatchers.
AnalyticsWorker ==
    /\ Running
    /\ analytics
    /\ Len(eventChan) > 0
    /\ eventChan' = Tail(eventChan)
    /\ ret' = NoRet
    /\ UNCHANGED <<budget, bulk, atClose, counters, analytics>>
    /\ UNCHANGED <<cacheVars, db, writeBuf, flushChan, closeVars, workerVars,
                   reaperVars, procVars, now, panicked, nCalls, fate, oblig>>

\* ---------------------------------------------------------------- clock
Tick ==
    /\ Running
    /\ now < MaxTime
    /\ now' = now + 1
    /\ Silent
    /\ UNCHANGED <<cacheVars, db, writeBuf, flushChan, closeVars, workerVars,
                   reaperVars, procVars, panicked, nCalls, fate, oblig>>

\* ------------------------------------------------------ handleBulkUpload
\* A data row of the CSV file: record[0], record[2] and record[3] (the title is
\* only copied): a row without a target, and rows with one: without a slug,
\* with a slug, with a slug and an expiry.
BulkRows == {[url |-> "", slug |-> <<>>, expiry |-> 0],
             [url |-> "b", slug |-> <<>>, expiry |-> 0],
             [url |-> "b", slug |-> <<"a">>, expiry |-> 0],
             [url |-> "b", slug |-> <<"a">>, expiry |-> 1]}

\* The files of at most n data rows.
BulkFiles(n) == UNION {[1..k -> BulkRows] : k \in 0..n}

\* A step of the upload: no store call returns and nothing but the upload moves.
BulkStep(b) ==
    /\ bulk' = b
    /\ ret' = NoRet
    /\ UNCHANGED <<budget, atClose, counters, trackVars, db, closeVars, workerVars, reaperVars,
                   procVars, now, panicked, oblig>>

\* Lines 216-240: the form is parsed and the CSV file read.  Every data row
\* counts as a call.
BulkStart ==
    /\ Running
    /\ bulk.pc = "idle"
    /\ \E records \in BulkFiles(budget - nCalls) :
          /\ BulkStep([NoBulk EXCEPT !.pc = "loop", !.records = records])
          /\ nCalls' = nCalls + Len(records)
    /\ UNCHANGED <<cacheVars, writeBuf, flushChan, fate>>

\* Lines 242-248 at the go statement: a batch goroutine with its batch.
Launch(workers, batch) == Append(workers, [rows |-> batch, out |-> <<>>, done |-> FALSE])

\* Line 280: len(batch) == batchSize
Full(batch) == Len(batch) = batchSize

\* The rest of the rows launched only when it fills a batch.
HasRestFull(batch) == Len(batch) = batchSize

\* Line 288: len(batch) > 0
HasRest(batch) == Len(batch) > 0

\* Lines 257-276: the record of row i, with the row's number as history.
BulkData(i, row) ==
    [row |-> i,
     data |-> [URL |-> row.url, Title |-> "", ShortCode |-> row.slug, CreatedAt |-> now,
               ExpiresAt |-> IF row.expiry > 0 THEN <<now + row.expiry>> ELSE NoTime]]

\* Lines 251-291: one turn of the row loop, and after the last row the launch of
\* the batch that is left.
BulkLoop ==
    /\ Running
    /\ bulk.pc = "loop"
    /\ IF bulk.i <= Len(bulk.records)
       THEN LET batch == Append(bulk.batch, BulkData(bulk.i, bulk.records[bulk.i])) IN
            IF Full(batch)
            THEN BulkStep([bulk EXCEPT !.i = @ + 1, !.batch = <<>>,
                                       !.workers = Launch(@, batch)])
            ELSE BulkStep([bulk EXCEPT !.i = @ + 1, !.batch = batch])
       ELSE IF HasRest(bulk.batch)
            THEN BulkStep([bulk EXCEPT !.pc = "wait", !.batch = <<>>,
                                       !.workers = Launch(@, bulk.batch)])
            ELSE BulkStep([bulk EXCEPT !.pc = "wait"])
    /\ UNCHANGED <<cacheVars, writeBuf, flushChan, fate, nCalls>>

\* The codes a row may get: its slug, or a generated code that is free.
BulkCodes(slug) ==
    IF slug # <<>> THEN {slug}
    ELSE IF \E g \in generateRandomString(ShortURLLen) : ~Exists(g)
    THEN {g \in generateRandomString(ShortURLLen) : ~Exists(g)}
    ELSE {h \in generateRandomString(FallbackLen) : ~Exists(h)}

\* The result of one row.
BulkResult(b, item, code, err) ==
    BulkStep([bulk EXCEPT !.workers[b].out =
                 Append(@, [row |-> item.row, code |-> code, err |-> err])])

\* CreateShortURLs, one row of the batch: the row is refused when its target is
\* empty or its slug taken, and is created like a single create otherwise (cache
\* insert, buffer append, flush when the buffer is full); the other rows of the
\* batch go on whatever this one's result.
BulkRow(b) ==
    /\ Running
    /\ bulk.pc \in {"loop", "wait"}
    /\ b \in 1..Len(bulk.workers)
    /\ Len(bulk.workers[b].out) < Len(bulk.workers[b].rows)
    /\ LET item == bulk.workers[b].rows[Len(bulk.workers[b].out) + 1]
           d == item.data
       IN IF d.URL = ""
          THEN /\ BulkResult(b, item, <<>>, "ValidationError")
               /\ UNCHANGED <<cacheVars, writeBuf, flushChan, fate, nCalls>>
          ELSE IF ~MuFree
          THEN FALSE
          ELSE IF d.ShortCode # <<>> /\ Exists(d.ShortCode)
          THEN /\ BulkResult(b, item, <<>>, "AlreadyExists")
               /\ UNCHANGED <<cacheVars, writeBuf, flushChan, fate, nCalls>>
          ELSE \E code \in BulkCodes(d.ShortCode) :
                 LET rec == [d EXCEPT !.ShortCode = code]
                     buf == Append(writeBuf, rec)
                     cached == MapPut(fate, rec, "cached")
                 IN /\ BulkResult(b, item, code, "nil")
                    /\ UNCHANGED nCalls
                    /\ cache' = MapPut(cache, code, rec)
                    /\ gauge' = Cardinality(DOMAIN cache')
                    /\ IF ~ShouldFlush(buf)
                       THEN /\ writeBuf' = buf
                            /\ fate' = cached
                            /\ UNCHANGED flushChan
                       ELSE /\ writeBuf' = <<>>
                            /\ IF ~ChanFull
                               THEN /\ flushChan' = Append(flushChan, buf)
                                    /\ fate' = cached
                               ELSE /\ fate' = [r \in DOMAIN cached |->
                                                  IF r \in SeqToSet(buf) THEN "logged"
                                                  ELSE cached[r]]
                                    /\ UNCHANGED flushChan

\* Lines 243-247: the batch is through; its results are appended under mu and
\* the deferred wg.Done runs.
BulkCollect(b) ==
    /\ Running
    /\ bulk.pc \in {"loop", "wait"}
    /\ b \in 1..Len(bulk.workers)
    /\ ~bulk.workers[b].done
    /\ Len(bulk.workers[b].out) = Len(bulk.workers[b].rows)
    /\ BulkStep([bulk EXCEPT !.results = @ \o bulk.workers[b].out,
                             !.workers[b].done = TRUE])
    /\ UNCHANGED <<cacheVars, writeBuf, flushChan, fate, nCalls>>

\* Lines 293-298: wg.Wait() and the response.
BulkRespond ==
    /\ Running
    /\ bulk.pc = "wait"
    /\ \A b \in 1..Len(bulk.workers) : bulk.workers[b].done
    /\ BulkStep([bulk EXCEPT !.pc = "done"])
    /\ UNCHANGED <<cacheVars, writeBuf, flushChan, fate, nCalls>>

\* Lines 242-248: processBatch, one batch goroutine.
processBatch(b) == BulkRow(b) \/ BulkCollect(b)

\* The most batches an upload launches (lines 280-291: one for every batchSize
\* rows and one for the rest).
MaxBatches == (MaxRows + batchSize - 1) \div batchSize

Bulk == \/ BulkStart
        \/ BulkLoop
        \/ BulkRespond
        \/ \E b \in 1..MaxBatches : processBatch(b)

Create(p) == \/ CreateStart(p)
             \/ CreateLoop(p)
             \/ CreateInsert(p)
             \/ CreateAppend(p)
             \/ CreateTrigger(p)
             \/ CreateSend(p)

Get(p) == GetStart(p) \/ GetEvict(p) \/ GetDelete(p)

Delete(p) == DeleteStart(p) \/ DeleteCache(p)

List(p) == ListStart(p) \/ ListCount(p)

Flush == WorkerTick \/ WorkerSend \/ WorkerRecv \/ WorkerFlush

Worker == Flush \/ WorkerDone

Close == CloseDone \/ CloseChan \/ CloseDB

Reaper == ReaperSweep \/ ReaperLock \/ ReaperRemove

\* The store in service: the request goroutines, the flush worker, the reaper.
Next ==
    \/ \E p \in Procs : Create(p)
    \/ \E p \in Procs : Get(p)
    \/ \E p \in Procs : Delete(p)
    \/ Flush
    \/ Reaper
    \/ Tick

Spec == Init /\ [][Next]_vars

\* The same with one call more.
SpecDeep == InitDeep /\ [][Next]_vars

\* The store shutting down: Close runs while one request goroutine still calls.
NextClose ==
    \/ Create(1)
    \/ Get(1)
    \/ Delete(1)
    \/ Worker
    \/ Close
    \/ Reaper
    \/ Tick

SpecClose == Init /\ [][NextClose]_vars

\* The write path alone: the request goroutines creating, the flush worker.
NextCreate ==
    \/ \E p \in Procs : Create(p)
    \/ Flush

SpecCreate == InitDeep /\ [][NextCreate]_vars

\* The same with the goroutines of the worker and of Close scheduled: a step
\* either of them can take is taken at some time.
SpecCloseLive ==
    /\ Init
    /\ [][NextClose]_vars
    /\ WF_vars(Worker)
    /\ WF_vars(Close)

\* The table an earlier run left behind: one row that expires at time 1 and two
\* that never do.
Stored ==
    (<<"x">> :> [URL |-> "ux", Title |-> "tx", ShortCode |-> <<"x">>, CreatedAt |-> -2,
                 ExpiresAt |-> <<1>>])
    @@ (<<"y">> :> [URL |-> "uy", Title |-> "ty", ShortCode |-> <<"y">>, CreatedAt |-> -1,
                    ExpiresAt |-> NoTime])
    @@ (<<"z">> :> [URL |-> "uz", Title |-> "tz", ShortCode |-> <<"z">>, CreatedAt |-> -3,
                    ExpiresAt |-> NoTime])

InitList == InitWith(MaxCalls, Stored)

\* The store restarted on that table, one request goroutine calling, listings
\* included.
NextList ==
    \/ Create(1)
    \/ Get(1)
    \/ Delete(1)
    \/ List(1)
    \/ Flush
    \/ Reaper
    \/ Tick

SpecList == InitList /\ [][NextList]_vars

InitBulk == InitWith(MaxRows, EmptyMap)

\* A bulk upload, its batch goroutines and the flush worker.
NextBulk ==
    \/ Bulk
    \/ Flush

SpecBulk == InitBulk /\ [][NextBulk]_vars

InitShorten == InitWith(MaxBulkCalls, EmptyMap)

\* Both ways of creating: a request goroutine that shortens and a bulk upload.
NextShorten ==
    \/ Create(1)
    \/ Bulk
    \/ Flush

SpecShorten == InitShorten /\ [][NextShorten]_vars

\* The reaper at work on the table an earlier run left: one request goroutine
\* looks up and deletes.  The reaper's goroutine is scheduled when it can run
\* (it gets s.mu and finishes its cache section), and ticks keep coming with the
\* store answering again and again.
NextReap ==
    \/ Get(1)
    \/ Delete(1)
    \/ Reaper
    \/ Tick

SpecReap ==
    /\ InitList
    /\ [][NextReap]_vars
    /\ WF_vars(Sweep(TRUE))
    /\ WF_vars(ReaperLock)
    /\ WF_vars(ReaperRemove)

\* The store on the table an earlier run left, created into, looked up in, and
\* restarted at any moment.
NextRestart ==
    \/ Create(1)
    \/ Get(1)
    \/ Flush
    \/ Restart
    \/ Tick

SpecRestart == InitList /\ [][NextRestart]_vars

\* One request goroutine creating and looking up, the flush worker and the
\* clock: nothing but the lazy eviction removes an entry from the cache.
NextEvict ==
    \/ Create(1)
    \/ Get(1)
    \/ Flush
    \/ Tick

SpecEvict == Init /\ [][NextEvict]_vars

\* Redirects with analytics enabled, on the table an earlier run left: one
\* request goroutine looks up, the manager's worker empties the queue.
InitRedirect == InitApp(MaxDeepCalls, Stored, TRUE)

NextRedirect ==
    \/ Get(1)
    \/ AnalyticsWorker
    \/ Tick

SpecRedirect == InitRedirect /\ [][NextRedirect]_vars

\* ======================================================================
\* The claims.
\* ======================================================================

\* Goroutine p starts the call op(arg) in this step.
Starts(p, op, arg) ==
    /\ pc[p] = "idle"
    /\ \/ pc'[p] # "idle" /\ local'[p].op = op /\ local'[p].arg = arg
       \/ ret'.proc = p /\ ret'.op = op /\ ret'.arg = arg

\* The record's expires_at is earlier than t.
ExpiredBefore(rec, t) == rec.ExpiresAt # NoTime /\ rec.ExpiresAt[1] < t

\* The record's expires_at is not yet reached at t.
LiveAt(rec, t) == rec.ExpiresAt = NoTime \/ rec.ExpiresAt[1] > t

\* C1: read-your-write.  A lookup of a code returns the URL and title of every
\* create of that code that had returned when the lookup started, unless the
\* record has expired or a delete of the code came in between.
C1_ReadYourWrite ==
    ret.op = "get" =>
        \A o \in ret.owed :
            LiveAt(o, now) =>
                /\ ret.err = "nil"
                /\ ret.data.URL = o.URL
                /\ ret.data.Title = o.Title

\* C2: of two creates that run concurrently with the same slug, at most one gets
\* past the existence check: no two creates of one slug are both under way to
\* return it.
C2_OneSlugWinner ==
    \A p, q \in Procs :
        (p # q /\ pc[p] # "idle" /\ pc[q] # "idle"
              /\ local[p].op = "create" /\ local[q].op = "create"
              /\ local[p].arg # <<>>)
            => local[p].arg # local[q].arg

\* C3: a create without a slug never overwrites a cache entry: when it inserts
\* its record the code is in no record of the cache.
C3_NoOverwrite ==
    [][\A p \in Procs :
          (pc[p] = "insert" /\ pc'[p] = "append" /\ local[p].arg = <<>>)
              => local[p].code \notin DOMAIN cache]_vars

\* C4: a lookup returns either ErrNotExist with no record, or a record whose
\* expires_at is not earlier than the current time; a lookup of a code whose
\* cache entry's expires_at is earlier than the current time does not return it.
C4_ExpiredNeverReturned ==
    /\ ret.op = "get" =>
        \/ ret.err = "ErrNotExist" /\ ret.data = NoData
        \/ ret.err = "nil" /\ ret.data.ShortCode = ret.arg
                           /\ ~ExpiredBefore(ret.data, now)
    /\ \A p \in Procs :
        (pc[p] # "idle" /\ local[p].op = "get") => ExpiredBefore(local[p].data, now)

\* C4 happens: a lookup answered ErrNotExist for an expired code whose row is
\* still in the durable table.
C4_Witness ==
    /\ ret.op = "get"
    /\ ret.err = "ErrNotExist"
    /\ ret.arg \in DOMAIN db
    /\ ExpiredBefore(db[ret.arg], now)

\* C5: DeleteURL on a code that is in the cache and not expired does not answer
\* ErrNotExist.
C5_DeleteLiveSucceeds ==
    [][\A p \in Procs, c \in DOMAIN cache :
          (Starts(p, "delete", c) /\ ~ExpiredBefore(cache[c], now))
              => ~(ret'.proc = p /\ ret'.err = "ErrNotExist")]_vars

\* C6: a create with a slug that no live, non-expired record holds is not
\* refused as a collision, also when the expired record has not been evicted.
C6_SlugFreeAfterExpiry ==
    [][\A p \in Procs, c \in Slugs :
          (Starts(p, "create", c)
              /\ (c \in DOMAIN cache => ExpiredBefore(cache[c], now)))
              => ~(ret'.proc = p /\ ret'.err = "slug already exists")]_vars

\* C7: a create with a slug that is in the cache as a non-expired record returns
\* the collision error in its first step and leaves the cache, the write buffer,
\* the flush channel and the durable table as they were.
C7_CollisionChangesNothing ==
    [][\A p \in Procs, c \in Slugs :
          (Starts(p, "create", c) /\ c \in DOMAIN cache
              /\ ~ExpiredBefore(cache[c], now))
              => /\ ret'.proc = p
                 /\ ret'.err = "slug already exists"
                 /\ ret'.code = <<>>
                 /\ UNCHANGED <<cache, writeBuf, flushChan, db>>]_vars

\* C7 happens: a create was refused for a slug held by a non-expired record.
C7_Witness ==
    /\ ret.op = "create"
    /\ ret.err = "slug already exists"
    /\ ret.arg \in DOMAIN cache
    /\ ~ExpiredBefore(cache[ret.arg], now)

\* C8: DeleteURL on a code whose expires_at has passed does not delete it as if
\* it were live: it does not go on to report success.
C8_DeleteExpiredNotFound ==
    [][\A p \in Procs, c \in DOMAIN db :
          (Starts(p, "delete", c) /\ ExpiredBefore(db[c], now))
              => pc'[p] # "delcache"]_vars

\* C9: DeleteURL touches the cache only after the durable delete affected a row.
\* A delete of a code with no row returns an error at once (ErrNotExist unless
\* the store failed); a delete that returns an error has left the cache and the
\* gauge alone; and the step of a delete that changes the cache holds a positive
\* affected-row count.
C9_CacheAfterDurableDelete ==
    [][\A p \in Procs :
          /\ \A c \in LookupCodes :
                (Starts(p, "delete", c) /\ c \notin DOMAIN db)
                    => /\ ret'.proc = p
                       /\ ret'.err \in {"ErrNotExist", "db error"}
          /\ (ret'.proc = p /\ ret'.op = "delete" /\ ret'.err # "nil")
                => /\ pc[p] = "idle"
                   /\ UNCHANGED <<cache, gauge>>
                   /\ ret'.err = "ErrNotExist" => ret'.arg \notin DOMAIN db
          /\ (local[p].op = "delete" /\ (pc'[p] # pc[p] \/ ret'.proc = p)
                 /\ <<cache, gauge>>' # <<cache, gauge>>)
                => pc[p] = "delcache" /\ local[p].rows >= 1]_vars

\* C9 happens: a delete answered ErrNotExist for a code that is in the cache but
\* has no row yet, and the cache entry is still there.
C9_Witness ==
    /\ ret.op = "delete"
    /\ ret.err = "ErrNotExist"
    /\ ret.arg \in DOMAIN cache
    /\ gauge = Cardinality(DOMAIN cache)

\* C10: no record is lost without a log entry.  Once Close has returned nothing
\* is flushed or logged any more, so when Close has returned and no call is under
\* way every record that a create put into the cache has been committed or
\* covered by a logged loss.
C10_NoSilentLoss ==
    (cpc = "closed" /\ \A p \in Procs : pc[p] = "idle")
        => \A r \in DOMAIN fate : fate[r] \in {"durable", "logged"}

\* Goroutine p takes this step.
Moves(p) == pc'[p] # pc[p] \/ local'[p] # local[p] \/ ret'.proc = p

\* C11: bounded-retry convergence.  flushWithRetry returns only after it has
\* committed the batch, and then all its N records are rows of the durable
\* table, or after maxRetries failed attempts: a batch whose first two attempts
\* failed gets its third attempt, and when that is accepted all N records are
\* durable as flushWithRetry returns.
C11_RetryConverges ==
    [][(wpc = "flush" /\ wpc' # "flush")
          => \/ \A i \in 1..Len(wbatch) :
                  /\ wbatch[i].ShortCode \in DOMAIN db'
                  /\ db'[wbatch[i].ShortCode] = wbatch[i]
             \/ attempt = maxRetries - 1 /\ db' = db]_vars

\* C11 happens: two attempts of a batch of two records have failed and the
\* third, which the table can accept, is about to be made.
C11_Witness ==
    /\ wpc = "flush"
    /\ attempt = 2
    /\ Len(wbatch) = 2
    /\ ~KeyConflict(wbatch)
    /\ \A i \in 1..Len(wbatch) : wbatch[i].ShortCode \in DOMAIN cache

\* C12: CreateShortURL performs no durable-store operation and does not depend
\* on the store: no step of a create changes the table, a create returns an
\* error only for a collision with a slug that is in the cache, and a flush that
\* fails on all attempts is only logged: it reaches no caller, and the step
\* leaves the cache, with the batch's records, as it was.
C12_CreateIgnoresStore ==
    [][/\ \A p \in Procs :
            /\ (Moves(p) /\ "create" \in {local[p].op, local'[p].op, ret'.op})
                  => UNCHANGED db
            /\ (ret'.proc = p /\ ret'.op = "create" /\ ret'.err # "nil")
                  => /\ ret'.err = "slug already exists"
                     /\ ret'.arg \in DOMAIN cache
       /\ (wpc = "flush" /\ wpc' # "flush" /\ db' = db)
            => /\ ret' = NoRet
               /\ UNCHANGED <<cache, gauge, pc, local>>]_vars

\* C12 happens: the record of a create that returned without error was given
\* up with a log entry; it is in no row of the table and still in the cache.
C12_Witness ==
    /\ wpc = "select"
    /\ \E r \in oblig :
          /\ fate[r] = "logged"
          /\ r.ShortCode \in DOMAIN cache
          /\ cache[r.ShortCode] = r
          /\ r.ShortCode \notin DOMAIN db

\* C17: every code a create without a slug returns has exactly the configured
\* length and only characters of the charset, also after a collision of the
\* first candidate.
C17_GeneratedLength ==
    (ret.op = "create" /\ ret.err = "nil" /\ ret.arg = <<>>)
        => /\ Len(ret.code) = ShortURLLen
           /\ \A i \in 1..Len(ret.code) : ret.code[i] \in Charset

\* C18: the worker drains before it exits.  When the flush worker has
\* terminated, no batch that was queued on the flush channel when Close was
\* called is still on the channel: each was received and handed to
\* flushWithRetry.
C18_DrainOnClose ==
    wpc = "exited" =>
        \A i \in 1..Len(flushChan) : flushChan[i] \notin SeqToSet(atClose)

\* C19: lil_urls_shortened_total counts the URLs shortened: every step adds one
\* to it when a create returns with success in that step, and nothing otherwise,
\* so its value is the number of successful creates.
C19_ShortenedCountsSuccesses ==
    [][URLsShortenedTotal' = URLsShortenedTotal
          + (IF ret'.op = "create" /\ ret'.err = "nil" THEN 1 ELSE 0)]_vars

\* C20: lil_urls_deleted_total counts the URLs deleted: every step adds one to
\* it when a delete returns with success in that step, and nothing otherwise, so
\* a delete that ends in ErrNotExist does not increase it.
C20_DeletedCountsSuccesses ==
    [][URLsDeletedTotal' = URLsDeletedTotal
          + (IF ret'.op = "delete" /\ ret'.err = "nil" THEN 1 ELSE 0)]_vars

\* The records of the creates that have returned, not deleted since and not
\* expired at the current time.
Offered == {r \in oblig : LiveAt(r, now)}

\* The sequence holds its records newest-created first.
NewestFirst(u) == \A i, j \in 1..Len(u) : i < j => u[i].CreatedAt >= u[j].CreatedAt

\* C13: after N creates of non-expired records have returned, GetURLs(1, perPage)
\* returns exactly min(N, perPage) records, newest first, and totalCount = N.
C13_ListAfterCreates ==
    [][\A p \in Procs :
          /\ (pc[p] = "idle" /\ pc'[p] = "count" /\ local'[p].arg[1] = 1)
                => /\ Len(local'[p].urls) = Min(Cardinality(Offered), local'[p].arg[2])
                   /\ NewestFirst(local'[p].urls)
          /\ (pc[p] = "count" /\ ret'.proc = p /\ ret'.err = "nil")
                => ret'.list.total = Cardinality(Offered)]_vars

\* The rows of the durable table that are not expired at the current time.
DurableLive == {r \in {db[c] : c \in DOMAIN db} : LiveAt(r, now)}

\* C14: GetURLs reflects the durable table only.  The page query returns rows
\* of the table that are not expired, newest first and without repetition; the
\* row at place i of the page can stand at position (page-1)*perPage+i of that
\* ordering and the page is as long as the ordering allows, up to perPage; the
\* count query returns the number of all such rows, next to the page read.
C14_ListReflectsTable ==
    [][\A p \in Procs :
          /\ (pc[p] = "idle" /\ pc'[p] = "count")
                => LET u == local'[p].urls
                       offset == (local'[p].arg[1] - 1) * local'[p].arg[2]
                       n == Cardinality(DurableLive)
                   IN /\ \A i \in 1..Len(u) : u[i] \in DurableLive
                      /\ \A i, j \in 1..Len(u) : i # j => u[i] # u[j]
                      /\ NewestFirst(u)
                      /\ Len(u) = IF n > offset THEN Min(local'[p].arg[2], n - offset) ELSE 0
                      /\ \A i \in 1..Len(u) :
                            /\ Cardinality({r \in DurableLive :
                                               r.CreatedAt > u[i].CreatedAt}) <= offset + i - 1
                            /\ Cardinality({r \in DurableLive :
                                               r.CreatedAt >= u[i].CreatedAt}) >= offset + i
          /\ (pc[p] = "count" /\ ret'.proc = p /\ ret'.err = "nil")
                => /\ ret'.list.total = Cardinality(DurableLive)
                   /\ ret'.list.urls = local[p].urls]_vars

\* C14 happens: a listing returned two rows of different age while the table
\* held an expired row and the cache a record that is in no row.
C14_Witness ==
    /\ ret.op = "list"
    /\ ret.err = "nil"
    /\ Len(ret.list.urls) = 2
    /\ ret.list.urls[1].CreatedAt > ret.list.urls[2].CreatedAt
    /\ ret.list.total = 2
    /\ \E c \in DOMAIN db : ExpiredBefore(db[c], now)
    /\ \E c \in DOMAIN cache : c \notin DOMAIN db

\* The records held anywhere in the store: the cache, the write buffer, the
\* batches on the flush channel or in a goroutine's hands, the durable table.
Held ==
    {cache[c] : c \in DOMAIN cache} \cup {db[c] : c \in DOMAIN db}
        \cup SeqToSet(writeBuf) \cup SeqToSet(wbatch)
        \cup UNION {SeqToSet(flushChan[i]) : i \in 1..Len(flushChan)}
        \cup UNION {SeqToSet(local[p].batch) : p \in Procs}

C16_RowsIndependent ==
    /\ \A b \in 1..Len(bulk.workers) : Len(bulk.workers[b].rows) <= batchSize
    /\ bulk.pc = "done" =>
          /\ Len(bulk.results) = Len(bulk.records)
          /\ \A i \in 1..Len(bulk.records) :
                \E k \in 1..Len(bulk.results) : bulk.results[k].row = i
          /\ \A k \in 1..Len(bulk.results) :
                LET res == bulk.results[k]
                    row == bulk.records[res.row]
                IN /\ res.err = "ValidationError" => row.url = ""
                   /\ res.err = "AlreadyExists" => row.url # "" /\ row.slug # <<>>
                   /\ res.err \in {"nil", "ValidationError", "AlreadyExists"}
                   /\ res.err = "nil" =>
                         /\ row.url # ""
                         /\ row.slug # <<>> => res.code = row.slug
                         /\ \E r \in DOMAIN fate :
                               r.URL = row.url /\ r.ShortCode = res.code

\* C16 happens: an upload of three rows ran in two batches, and in one batch a
\* row was created after the row before it had been refused.
C16_Witness ==
    /\ bulk.pc = "done"
    /\ Len(bulk.records) = 3
    /\ Len(bulk.workers) = 2
    /\ \E b \in 1..Len(bulk.workers) :
          /\ Len(bulk.workers[b].out) = 2
          /\ bulk.workers[b].out[1].err = "AlreadyExists"
          /\ bulk.workers[b].out[2].err = "nil"
\* C21: lazy expiry.  A lookup that finds a cached record whose expires_at has
\* passed does not return it but goes on to its exclusive section; that section
\* removes the code from the cache, sets the gauge and leaves the table alone;
\* the DELETE that follows removes the code's row or, when it fails, removes
\* nothing, and either way the call returns ErrNotExist with the cache as the
\* eviction left it.
C21_LazyExpiry ==
    [][\A p \in Procs :
          /\ \A c \in DOMAIN cache :
                (Starts(p, "get", c) /\ After(now, cache[c]))
                    => /\ pc'[p] = "evict"
                       /\ ret'.proc # p
                       /\ UNCHANGED <<cache, gauge, db>>
          /\ (pc[p] = "evict" /\ pc'[p] # "evict")
                => /\ pc'[p] = "getdel"
                   /\ local[p].arg \notin DOMAIN cache'
                   /\ cache' = MapDelete(cache, local[p].arg)
                   /\ gauge' = Cardinality(DOMAIN cache')
                   /\ ret'.proc # p
                   /\ db' = db
          /\ (pc[p] = "getdel" /\ pc'[p] # "getdel")
                => /\ ret'.proc = p
                   /\ ret'.op = "get"
                   /\ ret'.arg = local[p].arg
                   /\ ret'.err = "ErrNotExist"
                   /\ ret'.data = NoData
                   /\ UNCHANGED <<cache, gauge>>
                   /\ \/ db' = MapDelete(db, local[p].arg)
                      \/ db' = db /\ local[p].arg \in DOMAIN db]_vars

\* C21 happens: a lookup of an expired record has returned ErrNotExist, the code
\* has left the cache, and its expired row is still in the table because the
\* DELETE failed.
C21_Witness ==
    /\ ret.op = "get"
    /\ ret.err = "ErrNotExist"
    /\ ret.arg \notin DOMAIN cache
    /\ ret.arg \in DOMAIN db
    /\ After(now, db[ret.arg])

\* C22: one successful sweep.  The sweep's DELETE removes from the table exactly
\* the rows whose expires_at is set and at or before now and leaves every other
\* row as it was; the cache removal that follows removes exactly the returned
\* codes, sets the gauge to the cache size, and leaves every cache entry that
\* never expires or has not yet expired as it was.
C22_SweepExact ==
    [][/\ (rpc = "wait" /\ rpc' # "wait")
            => /\ rcodes' = {c \in DOMAIN db : SweepExpired(now, db[c])}
               /\ DOMAIN db' = DOMAIN db \ rcodes'
               /\ \A c \in DOMAIN db' : db'[c] = db[c]
               /\ UNCHANGED <<cache, gauge>>
       /\ (rpc = "locked" /\ rpc' # "locked")
            => /\ DOMAIN cache' = DOMAIN cache \ rcodes
               /\ \A c \in DOMAIN cache' : cache'[c] = cache[c]
               /\ gauge' = Cardinality(DOMAIN cache')
               /\ db' = db
               /\ \A c \in DOMAIN cache :
                     ~SweepExpired(now, cache[c])
                        => c \in DOMAIN cache' /\ cache'[c] = cache[c]]_vars

\* Every code a row can have.
AllCodes == Slugs \cup generateRandomString(ShortURLLen)
               \cup generateRandomString(FallbackLen) \cup DOMAIN Stored

\* C23: the reaper keeps running after a failed sweep, and while ticks keep
\* coming and the store answers again and again, every row of the table whose
\* expires_at has passed is eventually deleted, looked up or not.
C23_ExpiredEventuallySwept ==
    /\ [](rpc \in {"wait", "remove", "locked"})
    /\ \A c \in AllCodes :
          (c \in DOMAIN db /\ SweepExpired(now, db[c]))
              ~> ~(c \in DOMAIN db /\ SweepExpired(now, db[c]))

\* C23 happens: a sweep has deleted an expired row that no call ever looked up.
C23_Witness ==
    /\ rpc = "remove"
    /\ rcodes # {}
    /\ nCalls = 0

\* The goroutines that hold s.mu between two steps: the reaper from its Lock at
\* expire.go line 43 to its Unlock at line 54.
MuHolders == IF ~MuFree THEN {"reaper"} ELSE {}

\* The goroutines whose next step is an operation on the durable store: a lookup
\* before its DELETE (store.go line 324), the flush worker before a doFlush
\* (line 191), the reaper before rows.Next() (expire.go line 44).
StoreWaiters ==
    {p \in Procs : pc[p] = "getdel"}
        \cup (IF wpc = "flush" THEN {"worker"} ELSE {})
        \cup (IF rpc = "locked" THEN {"reaper"} ELSE {})

\* C24: the cache lock is never held across I/O.  In no state does a goroutine
\* that holds s.mu have an operation on the durable store as its next step.
C24_NoStoreOpUnderMu == MuHolders \cap StoreWaiters = {}

\* C25: triggerFlush never blocks.  The flush channel never holds more batches
\* than its capacity.  A trigger that finds the buffer empty returns at once; one
\* that finds records captures the whole buffer and leaves it empty.  The offer
\* of the captured batch can always be made: with room on the channel the batch
\* is queued behind the others, with the channel full it is dropped, the channel
\* and the cleared buffer stay as they are, and the goroutine goes on.
C25_TriggerNeverBlocks ==
    /\ [](\A p \in Procs : pc[p] = "send" => ENABLED CreateSend(p))
    /\ [](wpc = "send" => ENABLED WorkerSend)
    /\ [][/\ Len(flushChan') <= FlushChanCap
          /\ \A p \in Procs :
               /\ (pc[p] = "trigger" /\ pc'[p] # "trigger")
                     => IF writeBuf = <<>>
                        THEN pc'[p] = "idle" /\ UNCHANGED <<writeBuf, flushChan>>
                        ELSE /\ pc'[p] = "send"
                             /\ local'[p].batch = writeBuf
                             /\ writeBuf' = <<>>
                             /\ UNCHANGED flushChan
               /\ (pc[p] = "send" /\ pc'[p] # "send" /\ ~chanClosed)
                     => /\ pc'[p] = "idle"
                        /\ ret'.proc = p /\ ret'.err = "nil"
                        /\ writeBuf' = writeBuf
                        /\ IF Len(flushChan) < FlushChanCap
                           THEN flushChan' = Append(flushChan, local[p].batch)
                           ELSE flushChan' = flushChan
          /\ (wpc = "select" /\ wpc' = "send")
               => /\ writeBuf # <<>>
                  /\ wbatch' = writeBuf
                  /\ writeBuf' = <<>>
                  /\ UNCHANGED flushChan
          /\ (wpc = "send" /\ wpc' # "send")
               => /\ wpc' = "select"
                  /\ writeBuf' = writeBuf
                  /\ IF Len(flushChan) < FlushChanCap
                     THEN flushChan' = Append(flushChan, wbatch)
                     ELSE flushChan' = flushChan]_vars

\* C25 happens: the batch of the first create fills the channel, the batch of
\* the second was offered behind it and dropped, and the buffer is empty.
C25_Witness ==
    /\ Len(flushChan) = FlushChanCap
    /\ writeBuf = <<>>
    /\ \E r \in DOMAIN fate :
          /\ r.URL = URLs[2]
          /\ fate[r] = "logged"
    /\ \E i \in 1..Len(flushChan) :
          \E j \in 1..Len(flushChan[i]) : flushChan[i][j].URL = URLs[1]

\* The flush worker makes an attempt of its batch in this step.
Attempts == wpc = "flush" /\ (wpc' # "flush" \/ attempt' # attempt)

\* The records of the batch are rows of the table.
AllDurable(urls, table) ==
    \A i \in 1..Len(urls) :
        urls[i].ShortCode \in DOMAIN table /\ table[urls[i].ShortCode] = urls[i]

\* C26: between one and three attempts.  A batch the worker takes starts at its
\* first attempt and leaves the worker only through an attempt; an attempt is
\* the first, second or third; a further attempt follows only a failed one that
\* was not the third; a successful attempt ends the batch; the third failure
\* ends it too, with its records logged as lost; and no record logged as lost is
\* ever in a batch the worker attempts.
C26_AttemptsBounded ==
    [][/\ (wpc # "flush" /\ wpc' = "flush") => attempt' = 0 /\ wbatch' # <<>>
       /\ (wpc = "flush" /\ wpc' # "flush") => Attempts /\ wpc' = "select"
       /\ Attempts =>
            /\ attempt \in 0..(maxRetries - 1)
            /\ db' # db => wpc' = "select"
            /\ wpc' = "flush" =>
                  /\ db' = db
                  /\ attempt' = attempt + 1
                  /\ attempt < maxRetries - 1
                  /\ wbatch' = wbatch
            /\ (wpc' = "select" /\ db' = db) =>
                  /\ attempt = maxRetries - 1
                  /\ \A i \in 1..Len(wbatch) :
                        fate[wbatch[i]] = "cached" => fate'[wbatch[i]] = "logged"
       /\ wpc' = "flush" =>
            \A i \in 1..Len(wbatch') : fate'[wbatch'[i]] # "logged"]_vars

\* C26 happens: the only record created was handed to the worker and logged as
\* lost after its third failed attempt; the channel was never full.
C26_Witness ==
    /\ nCalls = 1
    /\ wpc = "select"
    /\ writeBuf = <<>> /\ flushChan = <<>>
    /\ \E r \in DOMAIN fate : fate[r] = "logged" /\ r.URL = URLs[1]

\* The codes of the records of a batch.
BatchCodes(urls) == {urls[i].ShortCode : i \in 1..Len(urls)}

\* C27: an attempt of a batch either leaves the table as it was, none of the
\* batch's records counted as committed, or adds every record of the batch and
\* nothing else; in both cases every row that is not of this batch, whatever
\* batch committed it, is left as it was.
C27_BatchAtomic ==
    [][Attempts =>
        /\ \/ /\ db' = db
              /\ \A i \in 1..Len(wbatch) : fate'[wbatch[i]] # "durable"
           \/ /\ AllDurable(wbatch, db')
              /\ DOMAIN db' = DOMAIN db \cup BatchCodes(wbatch)
        /\ \A c \in DOMAIN db \ BatchCodes(wbatch) : c \in DOMAIN db' /\ db'[c] = db[c]
        /\ \A r \in DOMAIN fate :
              r \notin SeqToSet(wbatch) => fate'[r] = fate[r]]_vars

\* C27 happens: a batch has failed at least once and is about to be attempted
\* again while a record of an earlier batch is a row of the table.
C27_Witness ==
    /\ wpc = "flush"
    /\ attempt > 0
    /\ wbatch # <<>>
    /\ \E r \in DOMAIN fate :
          /\ r.URL \in {URLs[1], URLs[2]}
          /\ fate[r] = "durable"
          /\ r.ShortCode \in DOMAIN db /\ db[r.ShortCode] = r
          /\ r \notin SeqToSet(wbatch)

\* C28: persistence is an upsert.  An attempt made while the store is open and
\* answers commits the batch, whatever codes the table holds already and however
\* often a code occurs in the batch: afterwards every code of the batch is a row
\* of the table holding a record of the batch with that code, and every record
\* of the batch counts as durable.
C28_Upsert ==
    [][(doFlush(TRUE) /\ ~dbClosed) =>
        /\ \A i \in 1..Len(wbatch) :
              /\ wbatch[i].ShortCode \in DOMAIN db'
              /\ db'[wbatch[i].ShortCode] \in SeqToSet(wbatch)
              /\ fate'[wbatch[i]] = "durable"]_vars

\* C29: the connection is closed only after the worker terminated, so that the
\* worker is in no attempt and starts none once it is closed, and Close, once
\* called, returns.
C29_CloseAfterWorker ==
    /\ [](dbClosed => wpc = "exited")
    /\ [][dbClosed => wpc' = "exited"]_vars
    /\ (cpc # "open") ~> (cpc = "closed")

\* The part of C29 about the order: no attempt once the connection is closed.
C29_NoAttemptAfterClose == dbClosed => wpc = "exited"

\* C30: whenever no CreateShortURL is between its append to the write buffer and
\* its flush trigger, the write buffer holds fewer than bufferSize records.
C30_BufferBelowThreshold ==
    (\A p \in Procs : pc[p] # "trigger") => Len(writeBuf) < BufferSize

\* C30 happens: a create brought the buffer to the threshold and its trigger has
\* taken the bufferSize records out of it.
C30_Witness ==
    /\ \E p \in Procs : pc[p] = "send" /\ Len(local[p].batch) = BufferSize
    /\ \A p \in Procs : pc[p] # "trigger"
    /\ writeBuf = <<>>

\* C31: with analytics enabled, a lookup that returns a record makes the
\* handler call Track once and answer 302, whatever the queue holds: the event is
\* queued when the queue has room and dropped when it is full; a lookup that
\* ends in not-found tracks nothing, leaves the queue alone and is answered 404;
\* and the queue never holds more events than its capacity.
C31_OneEventPerRedirect ==
    [][/\ Len(eventChan') <= EventChanCap
       /\ (analytics /\ ret'.op = "get" /\ ret'.err = "nil") =>
            /\ ret'.tracked = 1
            /\ ret'.status = 302
            /\ ret'.data.URL # ""
            /\ IF Len(eventChan) < EventChanCap
               THEN eventChan' = Append(eventChan, [ShortCode |-> ret'.arg,
                                                    TargetURL |-> ret'.data.URL])
               ELSE eventChan' = eventChan
       /\ (ret'.op = "get" /\ ret'.err # "nil") =>
            /\ ret'.err = "ErrNotExist"
            /\ ret'.tracked = 0
            /\ ret'.status = 404
            /\ eventChan' = eventChan
       /\ ret'.op # "get" => Len(eventChan') <= Len(eventChan)]_vars

\* C31 happens: a lookup found its record while the queue was full of the event
\* of another code: it was answered 302 and its event was dropped.
C31_Witness ==
    /\ analytics
    /\ ret.op = "get" /\ ret.err = "nil" /\ ret.status = 302 /\ ret.tracked = 1
    /\ Len(eventChan) = EventChanCap
    /\ \A i \in 1..Len(eventChan) : eventChan[i].ShortCode # ret.arg

\* C32: whenever s.mu is not held exclusively, the stored-count gauge is the
\* number of entries of the cache.
C32_GaugeIsCacheSize == MuFree => gauge = Cardinality(DOMAIN cache)

\* C32 happens: after the initial load of three rows a create has added a code,
\* a delete has removed one and the reaper's sweep another, and the gauge shows
\* the two entries left.
C32_Witness ==
    /\ MuFree
    /\ \A p \in Procs : pc[p] = "idle"
    /\ <<"a">> \in DOMAIN cache
    /\ <<"x">> \notin DOMAIN cache
    /\ <<"y">> \notin DOMAIN cache
    /\ <<"z">> \in DOMAIN cache
    /\ gauge = 2

\* C33: when New has returned, the cache holds exactly the rows of the table,
\* the gauge their number, and the write buffer and the flush channel are empty;
\* so a record that no flush committed is not in the cache, and the lookup of a
\* code that is not a row of the table, made right after, returns ErrNotExist.
C33_RestartLoadsTable ==
    [][/\ ret'.op = "new" =>
            /\ DOMAIN cache' = DOMAIN db'
            /\ \A c \in DOMAIN db' : cache'[c] = db'[c]
            /\ gauge' = Cardinality(DOMAIN db')
            /\ writeBuf' = <<>> /\ flushChan' = <<>>
            /\ \A r \in DOMAIN fate :
                  (r.ShortCode \notin DOMAIN db' \/ db'[r.ShortCode] # r) =>
                      (r.ShortCode \notin DOMAIN cache' \/ cache'[r.ShortCode] # r)
       /\ (ret.op = "new" /\ ret'.op = "get" /\ ret'.arg \notin DOMAIN db) =>
            ret'.err = "ErrNotExist"]_vars

\* C33 happens: a create that returned, of a record that never expires, was not
\* committed before the restart; the cache was loaded from a table that is not
\* empty, and the lookup of the lost code has just returned ErrNotExist.
C33_Witness ==
    /\ ret.op = "get" /\ ret.err = "ErrNotExist"
    /\ \E r \in oblig :
          /\ r.ShortCode = ret.arg
          /\ r.ExpiresAt = NoTime
          /\ fate[r] # "durable"
    /\ db # EmptyMap
    /\ cache = db
    /\ writeBuf = <<>> /\ flushChan = <<>> /\ wpc = "select"

\* A request goroutine makes a whole lookup in this step: the code is absent
\* from the cache, or its record has not expired.
ShortLookup == ret'.op = "get" /\ pc[ret'.proc] = "idle"

\* C34: a lookup of an absent code or of a cached record that has not expired is
\* one read of the cache: it returns in the step it starts in and leaves the
\* cache, the gauge, the write buffer, the flush channel and the table as they
\* were; a lookup goes on to the eviction and the DELETE only with a cached
\* record that has expired, and only that DELETE changes the table.
C34_LookupFrame ==
    [][/\ ShortLookup =>
            /\ UNCHANGED <<cache, gauge, writeBuf, flushChan, db>>
            /\ IF ret'.arg \in DOMAIN cache
               THEN /\ ~After(now, cache[ret'.arg])
                    /\ ret'.err = "nil" /\ ret'.data = cache[ret'.arg]
               ELSE ret'.err = "ErrNotExist"
       /\ \A p \in Procs :
            /\ (pc[p] = "idle" /\ pc'[p] = "evict") =>
                  /\ local'[p].code \in DOMAIN cache
                  /\ After(now, cache[local'[p].code])
                  /\ UNCHANGED <<cache, gauge, writeBuf, flushChan, db>>
            /\ pc[p] \in {"evict", "getdel"} /\ pc'[p] # pc[p] =>
                  /\ UNCHANGED <<writeBuf, flushChan>>
                  /\ pc[p] = "evict" => db' = db
                  /\ pc[p] = "getdel" =>
                        /\ UNCHANGED <<cache, gauge>>
                        /\ db' \in {db, MapDelete(db, local[p].code)}]_vars

\* C34 happens: the second call, a lookup of a code that is a row of the table
\* but not in the cache, has returned ErrNotExist and left the row where it was.
C34_Witness ==
    /\ ret.op = "get"
    /\ ret.err = "ErrNotExist"
    /\ ret.arg \in DOMAIN db
    /\ ret.arg \notin DOMAIN cache
    /\ \A p \in Procs : pc[p] = "idle"
    /\ nCalls = 2

\* C35: the lazy eviction removes only expired records: the entry a lookup
\* deletes from the cache under s.mu.Lock, if there is one, is a record with an
\* expiry that lies in the past, and nothing else leaves the cache in that step.
C35_EvictOnlyExpired ==
    [][\A p \in Procs :
         (pc[p] = "evict" /\ pc'[p] # "evict") =>
            /\ \A c \in DOMAIN cache \ DOMAIN cache' :
                  /\ c = local[p].code
                  /\ After(now, cache[c])
            /\ \A c \in DOMAIN cache' : cache'[c] = cache[c]]_vars

\* C36: the reaper removes only expired records from the cache: every entry
\* that leaves the cache in the sweep's removal is a record whose expiry has
\* passed, and the entries that stay are left as they were.
C36_ReapOnlyExpired ==
    [][(rpc = "locked" /\ rpc' # "locked") =>
          /\ \A c \in DOMAIN cache \ DOMAIN cache' : SweepExpired(now, cache[c])
          /\ \A c \in DOMAIN cache' : cache'[c] = cache[c]]_vars

\* C37: outside a delete between its DELETE and its cache removal and outside a
\* sweep between its DELETE and its cache removal, every row of the table that
\* has not expired has its code in the cache with the same URL, title and expiry.
C37_CacheCoversTable ==
    ((\A p \in Procs : pc[p] # "delcache") /\ rpc = "wait") =>
        \A c \in DOMAIN db :
            Unexpired(now, db[c]) =>
                /\ c \in DOMAIN cache
                /\ cache[c].URL = db[c].URL
                /\ cache[c].Title = db[c].Title
                /\ cache[c].ExpiresAt = db[c].ExpiresAt

\* The records of the batches of a channel, one after the other.
RECURSIVE Flat(_)
Flat(ch) == IF ch = <<>> THEN <<>> ELSE Head(ch) \o Flat(Tail(ch))

\* The batches the request goroutines hold between trigger and send.
RECURSIVE HeldBy(_)
HeldBy(ps) ==
    IF ps = {} THEN <<>>
    ELSE LET p == CHOOSE q \in ps : TRUE IN local[p].batch \o HeldBy(ps \ {p})

\* Every record on its way to the table: in the write buffer, in a batch held
\* by a request goroutine or by the worker, in a batch on the channel.
Pending == writeBuf \o HeldBy(Procs) \o wbatch \o Flat(flushChan)

NoDup(seq) == \A i, j \in 1..Len(seq) : i # j => seq[i] # seq[j]

\* C38: every record appended to the write buffer is captured by exactly one
\* batch.  No record is twice on its way (in the buffer and a batch, in two
\* batches, or twice in one); an append adds the create's record to the buffer
\* and nothing else; a trigger, of a create or of the timer, takes the whole
\* buffer as one batch and leaves it empty; and a record leaves its way only
\* with its batch, committed or logged as lost.
C38_ExactlyOneBatch ==
    /\ [](NoDup(Pending))
    /\ [][/\ \A p \in Procs :
              /\ (pc[p] = "append" /\ pc'[p] # "append") =>
                    writeBuf' = Append(writeBuf, local[p].data)
              /\ (pc[p] = "trigger" /\ pc'[p] = "send") =>
                    /\ local'[p].batch = writeBuf
                    /\ writeBuf' = <<>>
              /\ (pc[p] = "trigger" /\ pc'[p] = "idle") =>
                    writeBuf = <<>> /\ writeBuf' = <<>>
          /\ (wpc = "select" /\ wpc' = "send") =>
                /\ wbatch' = writeBuf
                /\ writeBuf' = <<>>
          /\ \A r \in SeqToSet(Pending) \ SeqToSet(Pending') :
                fate'[r] \in {"durable", "logged"}
          /\ \A r \in SeqToSet(Pending') \ SeqToSet(Pending) :
                \E p \in Procs : pc[p] = "append" /\ r = local[p].data]_vars

\* C38 happens: the timer's trigger and a create's threshold trigger have both
\* run: the worker is flushing a batch of one record, a request goroutine holds
\* a batch of bufferSize records, and the buffer is empty.
C38_Witness ==
    /\ wpc = "flush" /\ Len(wbatch) = 1
    /\ \E p \in Procs : pc[p] = "send" /\ Len(local[p].batch) = BufferSize
    /\ writeBuf = <<>>
    /\ NoDup(Pending)

\* C39: no batch is sent on the flush channel once Close has closed it: neither
\* a request goroutine nor the flush worker executes the send of triggerFlush on
\* the closed channel, and so none of them panics.
C39_NoSendOnClosedChan ==
    [][/\ chanClosed =>
            /\ \A p \in Procs : ~(pc[p] = "send" /\ pc'[p] # "send")
            /\ ~(wpc = "send" /\ (wpc' # "send" \/ panicked'))
       /\ ~panicked'
       /\ ret'.err # "panic"]_vars

\* The lazy-expiry delete of code c has completed and c has not been created
\* again: a record was created under c, c is not in the cache, and no lookup or
\* create of c is under way.  (Where only the lazy eviction removes cache
\* entries.)
LazilyDeleted(c) ==
    /\ \E r \in DOMAIN fate : r.ShortCode = c
    /\ c \notin DOMAIN cache
    /\ \A p \in Procs : pc[p] = "idle"

\* C40: a lazy-expiry delete is not undone by a later flush: once the eviction
\* and its DELETE are through and the table has no row for the code, no step
\* puts a row for that code into the table before the code is created again
\* (is in the cache again).
C40_LazyDeleteStays ==
    [][\A c \in AllCodes :
         (LazilyDeleted(c) /\ c \notin DOMAIN db /\ c \notin DOMAIN cache') =>
            c \notin DOMAIN db']_vars

====
